---- MODULE Spec2Model ----
(***************************************************************************)
(* The Fano plane of src/src/fano_geometry.py: the FanoPlane class (7      *)
(* points, 7 lines kept as a list of frozensets), its queries, the cyclic  *)
(* automorphisms and verify_axioms.                                        *)
(*                                                                         *)
(* A Python list is a TLA+ sequence; the element Python calls list[i] is   *)
(* the sequence's element i + 1.  A frozenset is a set, a dict a function. *)
(* A call's outcome is a record: [kind |-> "ok", val |-> v] for a return   *)
(* value v, [kind |-> "ValueError"] and the like for a raised exception.   *)
(***************************************************************************)
EXTENDS Integers, Sequences, FiniteSets, TLC

\* ------------------------------------------------------------------ bounds
\* Arguments of the calls are drawn from -MaxNeg .. MaxArg, shifts k of
\* automorphism_cyclic from -MaxNeg .. MaxK.
MaxNeg == 8
MaxArg == 7
MaxK == 9

ArgRange == (0 - MaxNeg)..MaxArg
KRange == (0 - MaxNeg)..MaxK

\* ------------------------------------------------------- program constants
\* list(range(7)), np.zeros((7, 7)), % 7, range(7)
NumPoints == 7

\* --------------------------------------------------------------- outcomes
Ok(v) == [kind |-> "ok", val |-> v]
Raise(e) == [kind |-> e]

\* list(range(n))
Range(n) == [i \in 1..n |-> i - 1]

\* set(list)
SetOf(list) == {list[i] : i \in 1..Len(list)}

\* list[idx] with Python's indexing: a negative idx counts from the end
Subscript(list, idx) ==
    IF idx >= 0 /\ idx < Len(list) THEN Ok(list[idx + 1])
    ELSE IF idx < 0 /\ 0 - idx <= Len(list) THEN Ok(list[Len(list) + idx + 1])
    ELSE Raise("IndexError")

\* ------------------------------------------------------------ construction
\* the list with line 4 written without the wrap-around of 4 + 3 to 0
CanonicalLines_NoWrap ==
    << {0, 1, 3}, {1, 2, 4}, {2, 3, 5}, {3, 4, 6}, {4, 5, 7}, {5, 6, 1}, {6, 0, 2} >>

\* self.lines of FanoPlane.__init__
CanonicalLines ==
    << {0, 1, 3}, {1, 2, 4}, {2, 3, 5}, {3, 4, 6}, {4, 5, 0}, {5, 6, 1}, {6, 0, 2} >>

\* FanoPlane(): the object __init__ leaves
FanoPlane == [points |-> Range(NumPoints), lines |-> CanonicalLines]

\* ----------------------------------------------------------------- queries
\* incidence_matrix filling matrix[i, point]: lines as rows
incidence_matrix_transposed(self) ==
    Ok([i \in 0..(NumPoints - 1) |->
          [point \in 0..(NumPoints - 1) |->
              IF i < Len(self.lines) /\ point \in self.lines[i + 1] THEN 1 ELSE 0]])

\* incidence_matrix with the loop stopping one line early
incidence_matrix_short(self) ==
    Ok([point \in 0..(NumPoints - 1) |->
          [i \in 0..(NumPoints - 1) |->
              IF i < Len(self.lines) - 1 /\ point \in self.lines[i + 1] THEN 1 ELSE 0]])

\* incidence_matrix: matrix[point, i] = 1 for every point of every line i,
\* every other entry 0 (the points of a plane are in 0..6)
incidence_matrix(self) ==
    Ok([point \in 0..(NumPoints - 1) |->
          [i \in 0..(NumPoints - 1) |->
              IF i < Len(self.lines) /\ point \in self.lines[i + 1] THEN 1 ELSE 0]])

\* [i for i, line in enumerate(self.lines) if point in line], from index i on
RECURSIVE lines_through_point_from(_, _, _)
lines_through_point_from(self, point, i) ==
    IF i >= Len(self.lines) THEN << >>
    ELSE (IF point \in self.lines[i + 1] THEN << i >> ELSE << >>)
             \o lines_through_point_from(self, point, i + 1)

\* the comprehension with enumerate counting from 1
lines_through_point_from1(self, point) ==
    Ok([n \in 1..Len(lines_through_point_from(self, point, 0)) |->
           lines_through_point_from(self, point, 0)[n] + 1])

lines_through_point(self, point) == Ok(lines_through_point_from(self, point, 0))

points_on_line(self, line_idx) == Subscript(self.lines, line_idx)

\* intersection with | written for &
intersection_union(self, line1_idx, line2_idx) ==
    LET l1 == Subscript(self.lines, line1_idx)
        l2 == Subscript(self.lines, line2_idx)
    IN  IF l1.kind # "ok" THEN l1
        ELSE IF l2.kind # "ok" THEN l2
        ELSE IF Cardinality(l1.val \cup l2.val) # 1 THEN Raise("AssertionError")
        ELSE Ok(CHOOSE x \in l1.val \cup l2.val : TRUE)

\* intersection without the assert: list(intersection)[0] of whatever is shared
intersection_no_assert(self, line1_idx, line2_idx) ==
    LET l1 == Subscript(self.lines, line1_idx)
        l2 == Subscript(self.lines, line2_idx)
    IN  IF l1.kind # "ok" THEN l1
        ELSE IF l2.kind # "ok" THEN l2
        ELSE IF l1.val \cap l2.val = {} THEN Raise("IndexError")
        ELSE Ok(CHOOSE x \in l1.val \cap l2.val : TRUE)

\* intersection: the assert raises AssertionError unless exactly one point is
\* shared; list(intersection)[0] of a one-element set is its element
intersection(self, line1_idx, line2_idx) ==
    LET l1 == Subscript(self.lines, line1_idx)
        l2 == Subscript(self.lines, line2_idx)
    IN  IF l1.kind # "ok" THEN l1
        ELSE IF l2.kind # "ok" THEN l2
        ELSE IF Cardinality(l1.val \cap l2.val) # 1 THEN Raise("AssertionError")
        ELSE Ok(CHOOSE x \in l1.val \cap l2.val : TRUE)

\* the loop of line_through_points from index i on: the first line holding
\* both points, ValueError when the loop runs out
RECURSIVE line_through_points_from(_, _, _, _)
line_through_points_from(self, p1, p2, i) ==
    IF i >= Len(self.lines) THEN Raise("ValueError")
    ELSE IF p1 \in self.lines[i + 1] /\ p2 \in self.lines[i + 1] THEN Ok(i)
    ELSE line_through_points_from(self, p1, p2, i + 1)

\* the loop with "or" written for "and"
RECURSIVE line_through_points_either_from(_, _, _, _)
line_through_points_either_from(self, p1, p2, i) ==
    IF i >= Len(self.lines) THEN Raise("ValueError")
    ELSE IF p1 \in self.lines[i + 1] \/ p2 \in self.lines[i + 1] THEN Ok(i)
    ELSE line_through_points_either_from(self, p1, p2, i + 1)

line_through_points_either(self, p1, p2) ==
    line_through_points_either_from(self, p1, p2, 0)

line_through_points(self, p1, p2) == line_through_points_from(self, p1, p2, 0)

\* third_point removing only p1 from the line
third_point_keeps_p2(self, p1, p2) ==
    LET found == line_through_points(self, p1, p2)
    IN  IF found.kind # "ok" THEN {found}
        ELSE LET line == points_on_line(self, found.val).val
                 third == line \ {p1}
             IN  IF third = {} THEN {Raise("IndexError")}
                 ELSE {Ok(r) : r \in third}

\* third_point: the set of outcomes.  list(third)[0] is the first element in
\* the set's iteration order, which the language leaves open: any element of
\* third may come first; an empty third raises IndexError
third_point(self, p1, p2) ==
    LET found == line_through_points(self, p1, p2)
    IN  IF found.kind # "ok" THEN {found}
        ELSE LET line == points_on_line(self, found.val).val
                 third == line \ {p1, p2}
             IN  IF third = {} THEN {Raise("IndexError")}
                 ELSE {Ok(r) : r \in third}

\* is_collinear looking p3 up on line p1 instead of line line_idx
is_collinear_wrong_line(self, p1, p2, p3) ==
    LET found == line_through_points(self, p1, p2)
    IN  IF found.kind = "ValueError" THEN Ok(FALSE)
        ELSE Ok(p3 \in points_on_line(self, p1).val)

\* is_collinear: a ValueError of line_through_points becomes False
is_collinear(self, p1, p2, p3) ==
    LET found == line_through_points(self, p1, p2)
    IN  IF found.kind = "ValueError" THEN Ok(FALSE)
        ELSE Ok(p3 \in points_on_line(self, found.val).val)

complement_line(self, line_idx) ==
    LET line == points_on_line(self, line_idx)
    IN  IF line.kind # "ok" THEN line
        ELSE Ok(SetOf(self.points) \ line.val)

\* ----------------------------------------------------------- automorphisms
\* the mapping with k - i written for i + k: a reflection
automorphism_cyclic_reflected(self, k) ==
    Ok([i \in SetOf(self.points) |-> (k - i) % NumPoints])

\* the mapping with the reduction mod 7 left out
automorphism_cyclic_unreduced(self, k) ==
    Ok([i \in SetOf(self.points) |-> i + k])

\* {i: (i + k) % 7 for i in self.points}
automorphism_cyclic(self, k) ==
    Ok([i \in SetOf(self.points) |-> (i + k) % NumPoints])

\* apply_automorphism assigning the images to self.lines and returning self
apply_automorphism_in_place(self, automorphism) ==
    IF \E i \in 1..Len(self.lines) : \E p \in self.lines[i] : p \notin DOMAIN automorphism
    THEN [self |-> self, outcome |-> Raise("KeyError")]
    ELSE LET moved == [self EXCEPT !.lines =
                          [i \in 1..Len(self.lines) |->
                              {automorphism[p] : p \in self.lines[i]}]]
         IN  [self |-> moved, outcome |-> Ok(moved)]

\* apply_automorphism losing the last line: the images of self.lines[:-1]
apply_automorphism_drop_last(self, automorphism) ==
    IF \E i \in 1..Len(self.lines) : ~(self.lines[i] \subseteq DOMAIN automorphism)
    THEN [self |-> self, outcome |-> Raise("KeyError")]
    ELSE [self |-> self,
          outcome |-> Ok([points |-> self.points,
                          lines |-> [i \in 1..(Len(self.lines) - 1) |->
                                        {automorphism[p] : p \in self.lines[i]}]])]

\* apply_automorphism: self as the call leaves it, and the outcome, a new
\* FanoPlane() whose lines are the images; automorphism[p] of a missing key
\* raises KeyError
apply_automorphism(self, automorphism) ==
    IF \E i \in 1..Len(self.lines) : \E p \in self.lines[i] : p \notin DOMAIN automorphism
    THEN [self |-> self, outcome |-> Raise("KeyError")]
    ELSE [self |-> self,
          outcome |-> Ok([FanoPlane EXCEPT !.lines =
                             [i \in 1..Len(self.lines) |->
                                 {automorphism[p] : p \in self.lines[i]}]])]

\* ------------------------------------------------------------ verify_axioms
\* Axiom 1 with p1 <= p2 written for p1 < p2
axiom1_holds_le(fano) ==
    \A p1 \in SetOf(fano.points) : \A p2 \in SetOf(fano.points) :
        p1 <= p2 =>
            Cardinality({i \in 1..Len(fano.lines) :
                            p1 \in fano.lines[i] /\ p2 \in fano.lines[i]}) = 1

\* Axiom 1: each pair p1 < p2 of fano.points lies on exactly one line
axiom1_holds(fano) ==
    \A p1 \in SetOf(fano.points) : \A p2 \in SetOf(fano.points) :
        p1 < p2 =>
            Cardinality({i \in 1..Len(fano.lines) :
                            p1 \in fano.lines[i] /\ p2 \in fano.lines[i]}) = 1

\* Axiom 2: each pair i < j of lines shares exactly one point
axiom2_holds(fano) ==
    \A i \in 1..Len(fano.lines) : \A j \in (i + 1)..Len(fano.lines) :
        Cardinality(fano.lines[i] \cap fano.lines[j]) = 1

\* Axiom 3: all(len(line) == 3 for line in fano.lines)
axiom3_holds(fano) ==
    \A i \in 1..Len(fano.lines) : Cardinality(fano.lines[i]) = 3

\* Axiom 4: every point of fano.points is in exactly 3 lines
axiom4_holds(fano) ==
    \A point \in SetOf(fano.points) :
        Cardinality({i \in 1..Len(fano.lines) : point \in fano.lines[i]}) = 3

\* the search over p1 < p2 < p3 < p4 in range(7) for four points of which
\* is_collinear finds no three collinear
found_independent_set(fano) ==
    \E p1 \in 0..(NumPoints - 1) : \E p2 \in (p1 + 1)..(NumPoints - 1) :
    \E p3 \in (p2 + 1)..(NumPoints - 1) : \E p4 \in (p3 + 1)..(NumPoints - 1) :
        ~(\/ is_collinear(fano, p1, p2, p3).val
          \/ is_collinear(fano, p1, p2, p4).val
          \/ is_collinear(fano, p1, p3, p4).val
          \/ is_collinear(fano, p2, p3, p4).val)

\* verify_axioms giving up at the first axiom that fails: the later entries
\* are False whatever the plane
verify_axioms_abort(fano) ==
    LET a1 == axiom1_holds(fano)
        a2 == a1 /\ axiom2_holds(fano)
        a3 == a2 /\ axiom3_holds(fano)
        a4 == a3 /\ axiom4_holds(fano)
        a5 == a4 /\ found_independent_set(fano)
    IN  Ok(("Two points determine unique line" :> a1)
           @@ ("Two lines intersect at unique point" :> a2)
           @@ ("Each line has 3 points" :> a3)
           @@ ("Each point on 3 lines" :> a4)
           @@ ("Has 4 independent points" :> a5))

verify_axioms(fano) ==
    Ok(("Two points determine unique line" :> axiom1_holds(fano))
       @@ ("Two lines intersect at unique point" :> axiom2_holds(fano))
       @@ ("Each line has 3 points" :> axiom3_holds(fano))
       @@ ("Each point on 3 lines" :> axiom4_holds(fano))
       @@ ("Has 4 independent points" :> found_independent_set(fano)))

\* ------------------------------------------------------------------- state
\* fano:   the plane the caller works on: the self of the last call, as the
\*         call left it
\* op:     the call that has just returned, "ready" between two calls
\* args:   its arguments
\* result: its outcome
VARIABLES fano, op, args, result

vars == << fano, op, args, result >>

\* no call has returned: nothing to look at
NoResult == [kind |-> "none"]

\* The planes the caller holds after a call: the one it called and, after
\* apply_automorphism, the one returned.
Receivers ==
    {fano} \cup (IF op = "apply_automorphism" /\ result.kind = "ok"
                 THEN {result.val} ELSE {})

\* fano = FanoPlane() has just returned
Init ==
    /\ fano = FanoPlane
    /\ op = "__init__"
    /\ args = << >>
    /\ result = Ok(FanoPlane)

\* the caller is between two calls
Ready == op = "ready"

\* The caller goes on to its next statement with one of the planes it holds.
Continue ==
    /\ ~Ready
    /\ \E plane \in Receivers : fano' = plane
    /\ op' = "ready"
    /\ args' = << >>
    /\ result' = NoResult

\* fano = FanoPlane()
Construct ==
    /\ Ready
    /\ fano' = FanoPlane
    /\ op' = "__init__"
    /\ args' = << >>
    /\ result' = Ok(FanoPlane)

\* a call on fano returns outcome; self_after is self as the call leaves it
Call(name, arguments, self_after, outcome) ==
    /\ fano' = self_after
    /\ op' = name
    /\ args' = arguments
    /\ result' = outcome

IncidenceMatrix ==
    /\ Ready
    /\ Call("incidence_matrix", << >>, fano, incidence_matrix(fano))

LinesThroughPoint ==
    /\ Ready
    /\ \E point \in ArgRange :
           Call("lines_through_point", << point >>, fano, lines_through_point(fano, point))

PointsOnLine ==
    /\ Ready
    /\ \E line_idx \in ArgRange :
           Call("points_on_line", << line_idx >>, fano, points_on_line(fano, line_idx))

Intersection ==
    /\ Ready
    /\ \E line1_idx \in ArgRange : \E line2_idx \in ArgRange :
           Call("intersection", << line1_idx, line2_idx >>, fano,
                intersection(fano, line1_idx, line2_idx))

LineThroughPoints ==
    /\ Ready
    /\ \E p1 \in ArgRange : \E p2 \in ArgRange :
           Call("line_through_points", << p1, p2 >>, fano, line_through_points(fano, p1, p2))

ThirdPoint ==
    /\ Ready
    /\ \E p1 \in ArgRange : \E p2 \in ArgRange :
           \E outcome \in third_point(fano, p1, p2) :
               Call("third_point", << p1, p2 >>, fano, outcome)

IsCollinear ==
    /\ Ready
    /\ \E p1 \in ArgRange : \E p2 \in ArgRange : \E p3 \in ArgRange :
           Call("is_collinear", << p1, p2, p3 >>, fano, is_collinear(fano, p1, p2, p3))

ComplementLine ==
    /\ Ready
    /\ \E line_idx \in ArgRange :
           Call("complement_line", << line_idx >>, fano, complement_line(fano, line_idx))

AutomorphismCyclic ==
    /\ Ready
    /\ \E k \in KRange :
           Call("automorphism_cyclic", << k >>, fano, automorphism_cyclic(fano, k))

\* fano.apply_automorphism(fano.automorphism_cyclic(k))
ApplyAutomorphismCyclic ==
    /\ Ready
    /\ \E k \in KRange :
           LET automorphism == automorphism_cyclic(fano, k).val
               call == apply_automorphism(fano, automorphism)
           IN  Call("apply_automorphism", << automorphism >>, call.self, call.outcome)

VerifyAxioms ==
    /\ Ready
    /\ Call("verify_axioms", << >>, fano, verify_axioms(fano))

Next ==
    \/ Continue
    \/ Construct
    \/ IncidenceMatrix
    \/ LinesThroughPoint
    \/ PointsOnLine
    \/ Intersection
    \/ LineThroughPoints
    \/ ThirdPoint
    \/ IsCollinear
    \/ ComplementLine
    \/ AutomorphismCyclic
    \/ ApplyAutomorphismCyclic
    \/ VerifyAxioms

Spec == Init /\ [][Next]_vars

\* ------------------------------------------------- mappings of the caller's
\* Dictionaries a caller hands to apply_automorphism besides the cyclic ones.
\* the transposition of 0 and 1: a bijection that is no symmetry of the plane
Swap01 == [i \in 0..(NumPoints - 1) |-> IF i = 0 THEN 1 ELSE IF i = 1 THEN 0 ELSE i]

\* p -> 2p mod 7: a symmetry of the canonical plane that is no cyclic shift
Doubling == [i \in 0..(NumPoints - 1) |-> (2 * i) % NumPoints]

\* the shift by one, automorphism_cyclic(1)
Shift1 == automorphism_cyclic(FanoPlane, 1).val

\* 1 sent to 0, the other points kept: total, not injective
Merge10 == [i \in 0..(NumPoints - 1) |-> IF i = 1 THEN 0 ELSE i]

\* every point sent to 0
Constant0 == [i \in 0..(NumPoints - 1) |-> 0]

\* a dictionary without the key 6
Missing6 == [i \in 0..(NumPoints - 2) |-> i]

\* Shift1 and Swap01 generate every permutation of the 7 points: the planes
\* reached by applying them in turn are the planes any bijections reach.
Bijections == {Shift1, Swap01, Doubling}

Mappings == {Swap01, Doubling, Merge10, Constant0, Missing6}

\* fano.apply_automorphism(automorphism), the dictionary one of choices
ApplyAutomorphism(choices) ==
    /\ Ready
    /\ \E automorphism \in choices :
           LET call == apply_automorphism(fano, automorphism)
           IN  Call("apply_automorphism", << automorphism >>, call.self, call.outcome)

ApplyBijection == ApplyAutomorphism(Bijections)

ApplyMapping == ApplyAutomorphism(Mappings)

\* a caller that applies bijections of its own and verifies the planes it gets
NextBij ==
    \/ Continue
    \/ Construct
    \/ ApplyBijection
    \/ VerifyAxioms

SpecBij == Init /\ [][NextBij]_vars

\* a caller that applies any dictionaries, the planes it gets no longer valid
NextMaps ==
    \/ Continue
    \/ Construct
    \/ ApplyMapping
    \/ Intersection
    \/ VerifyAxioms

SpecMaps == Init /\ [][NextMaps]_vars

\* ------------------------------------------------------------------ claims
\* the points and the line indices of the plane
Points == 0..(NumPoints - 1)

\* the caller's plane is the canonical one, FanoPlane()
Canonical == fano = FanoPlane

\* the indices (as Python counts them) of the lines of plane holding all of pts
LinesHolding(plane, pts) ==
    {i \in 0..(Len(plane.lines) - 1) : pts \subseteq plane.lines[i + 1]}

\* C1: a freshly constructed plane has points = [0,1,2,3,4,5,6] and exactly 7
\* lines, and for every index i in 0..6 lines[i] is
\* {(0+i) mod 7, (1+i) mod 7, (3+i) mod 7}: the cyclic shifts of {0,1,3}, in
\* index order.
C1_CyclicConstruction ==
    op = "__init__" =>
        /\ result = Ok(fano)
        /\ fano.points = << 0, 1, 2, 3, 4, 5, 6 >>
        /\ Len(fano.lines) = 7
        /\ \A i \in 0..6 :
               fano.lines[i + 1] = {(0 + i) % 7, (1 + i) % 7, (3 + i) % 7}

\* a plane has just been constructed, its line 4 wrapping around to point 0
C1_Witness ==
    /\ op = "__init__"
    /\ Len(fano.lines) = 7
    /\ fano.lines[5] = {4, 5, 0}

\* C2: in the canonical plane, for every pair of distinct points p, q of 0..6
\* exactly one line index i has {p,q} within lines[i], and
\* line_through_points(p,q) returns that index without error, the same index
\* as for (q,p).
C2_LineThroughPoints ==
    (/\ op = "line_through_points"
     /\ Canonical
     /\ args[1] \in Points /\ args[2] \in Points /\ args[1] # args[2]) =>
        /\ Cardinality(LinesHolding(fano, {args[1], args[2]})) = 1
        /\ result.kind = "ok"
        /\ LinesHolding(fano, {args[1], args[2]}) = {result.val}
        /\ line_through_points(fano, args[2], args[1]) = result

\* line_through_points(6, 2) has returned on the canonical plane: the line is
\* the last one, index 6
C2_Witness ==
    /\ op = "line_through_points"
    /\ Canonical
    /\ args = << 6, 2 >>
    /\ result = Ok(6)

\* C3: in the canonical plane, for every pair of distinct line indices i, j of
\* 0..6 the sets lines[i] and lines[j] share exactly one point,
\* intersection(i,j) returns that point without raising, and
\* intersection(i,j) = intersection(j,i).
C3_Intersection ==
    (/\ op = "intersection"
     /\ Canonical
     /\ args[1] \in 0..6 /\ args[2] \in 0..6 /\ args[1] # args[2]) =>
        /\ Cardinality(fano.lines[args[1] + 1] \cap fano.lines[args[2] + 1]) = 1
        /\ result.kind = "ok"
        /\ fano.lines[args[1] + 1] \cap fano.lines[args[2] + 1] = {result.val}
        /\ intersection(fano, args[2], args[1]) = result

\* intersection(5, 2) has returned point 5 on the canonical plane
C3_Witness ==
    /\ op = "intersection"
    /\ Canonical
    /\ args = << 5, 2 >>
    /\ result = Ok(5)

\* C4: in the canonical plane, for every point p of 0..6
\* lines_through_point(p) returns exactly 3 line indices, in strictly
\* ascending order, and they are exactly the indices i with p in lines[i];
\* and every line has exactly 3 points.
C4_LinesThroughPoint ==
    (/\ op = "lines_through_point"
     /\ Canonical
     /\ args[1] \in Points) =>
        /\ result.kind = "ok"
        /\ Len(result.val) = 3
        /\ \A m \in 1..Len(result.val) : \A n \in 1..Len(result.val) :
               m < n => result.val[m] < result.val[n]
        /\ SetOf(result.val) = LinesHolding(fano, {args[1]})
        /\ \A i \in 1..Len(fano.lines) : Cardinality(fano.lines[i]) = 3

\* lines_through_point(0) has returned [0, 4, 6] on the canonical plane
C4_Witness ==
    /\ op = "lines_through_point"
    /\ Canonical
    /\ args = << 0 >>
    /\ result = Ok(<< 0, 4, 6 >>)

\* f[0] + ... + f[n]
RECURSIVE SumTo(_, _)
SumTo(f, n) == IF n < 0 THEN 0 ELSE f[n] + SumTo(f, n - 1)

\* C5: incidence_matrix() returns a 7x7 matrix M with M[p][i] = 1 if point p
\* is in lines[i] and 0 otherwise (rows are points, columns line indices);
\* for the canonical plane every row sum is 3 and every column sum is 3.
C5_IncidenceMatrix ==
    op = "incidence_matrix" =>
        /\ result.kind = "ok"
        /\ DOMAIN result.val = 0..6
        /\ \A p \in 0..6 : DOMAIN result.val[p] = 0..6
        /\ \A p \in 0..6 : \A i \in 0..6 :
               result.val[p][i] = IF p \in fano.lines[i + 1] THEN 1 ELSE 0
        /\ Canonical =>
               /\ \A p \in 0..6 : SumTo(result.val[p], 6) = 3
               /\ \A i \in 0..6 : SumTo([p \in 0..6 |-> result.val[p][i]], 6) = 3

\* incidence_matrix() has returned on the canonical plane: row 0 marks the
\* lines 0, 4 and 6, and column 0 the points 0, 1 and 3
C5_Witness ==
    /\ op = "incidence_matrix"
    /\ Canonical
    /\ {i \in 0..6 : result.val[0][i] = 1} = {0, 4, 6}
    /\ {p \in 0..6 : result.val[p][0] = 1} = {0, 1, 3}

\* entry (p,q) of M M^T for the matrix M the call returned
ProductEntry(p, q) ==
    SumTo([i \in 0..6 |-> result.val[p][i] * result.val[q][i]], 6)

C7_ThirdPoint ==
    (/\ op = "third_point"
     /\ Canonical
     /\ args[1] \in Points /\ args[2] \in Points /\ args[1] # args[2]) =>
        /\ result.kind = "ok"
        /\ result.val \notin {args[1], args[2]}
        /\ line_through_points(fano, args[1], args[2]).kind = "ok"
        /\ {args[1], args[2], result.val}
               = points_on_line(fano, line_through_points(fano, args[1], args[2]).val).val
        /\ \A i \in 1..Len(fano.lines) :
               {args[1], args[2]} \subseteq fano.lines[i] =>
                   fano.lines[i] \ {args[1], args[2]} = {result.val}

\* third_point(6, 4) has returned 3 on the canonical plane (line 3 = {3,4,6})
C7_Witness ==
    /\ op = "third_point"
    /\ Canonical
    /\ args = << 6, 4 >>
    /\ result = Ok(3)

\* the arguments of is_collinear are points of 0..6, the first two distinct
CollinearCase ==
    /\ op = "is_collinear"
    /\ Canonical
    /\ args[1] \in Points /\ args[2] \in Points /\ args[3] \in Points
    /\ args[1] # args[2]

\* the set of the three arguments
Triple == {args[1], args[2], args[3]}

\* is_collinear is true iff p3 lies on the unique line through p1 and p2, so
\* true of a line's points in any order and false of a triple of distinct
\* points that is not a line, such as 0,1,2
CollinearIffOnLine ==
    /\ result.kind = "ok"
    /\ Cardinality(LinesHolding(fano, {args[1], args[2]})) = 1
    /\ result.val = (\E i \in LinesHolding(fano, {args[1], args[2]}) :
                         args[3] \in fano.lines[i + 1])
    /\ Triple \in SetOf(fano.lines) => result.val = TRUE
    /\ (Cardinality(Triple) = 3 /\ Triple \notin SetOf(fano.lines)) => result.val = FALSE
    /\ args = << 0, 1, 2 >> => result.val = FALSE

AxiomNames ==
    {"Two points determine unique line", "Two lines intersect at unique point",
     "Each line has 3 points", "Each point on 3 lines", "Has 4 independent points"}

\* C9: verify_axioms applied to the canonical plane returns a mapping with
\* exactly the five keys "Two points determine unique line", "Two lines
\* intersect at unique point", "Each line has 3 points", "Each point on 3
\* lines", "Has 4 independent points", and each of the five values is true.
C9_VerifyAxiomsCanonical ==
    (op = "verify_axioms" /\ Canonical) =>
        /\ result.kind = "ok"
        /\ DOMAIN result.val = AxiomNames
        /\ \A name \in AxiomNames : result.val[name] = TRUE

\* verify_axioms has returned on the canonical plane, with an entry for the
\* four independent points
C9_Witness ==
    /\ op = "verify_axioms"
    /\ Canonical
    /\ result.kind = "ok"
    /\ "Has 4 independent points" \in DOMAIN result.val

\* C10: for every k in 0..6, apply_automorphism(automorphism_cyclic(k)) applied
\* to the canonical plane, or to any plane reached from it by a sequence of
\* such applications, yields a plane whose set of lines equals the original's
\* set of lines: every transformed line is one of the 7 canonical lines and
\* all 7 occur.
C10_CyclicPreservesLines ==
    (/\ op = "apply_automorphism"
     /\ \E k \in 0..6 : args[1] = automorphism_cyclic(fano, k).val) =>
        /\ result.kind = "ok"
        /\ SetOf(result.val.lines) = SetOf(fano.lines)
        /\ SetOf(result.val.lines) = SetOf(FanoPlane.lines)
        /\ Cardinality(SetOf(result.val.lines)) = 7

\* the shift by 3 has been applied to a plane that is itself a shifted one,
\* and has moved its lines
C10_Witness ==
    /\ op = "apply_automorphism"
    /\ args[1] = automorphism_cyclic(fano, 3).val
    /\ fano.lines # FanoPlane.lines
    /\ result.kind = "ok"
    /\ result.val.lines # fano.lines
    /\ result.val.lines # FanoPlane.lines

\* the identity mapping on the points
Identity == [i \in Points |-> i]

\* a composed with itself n times, from the identity:
\* result = {i: a[result[i]] for i in range(7)}, n times
RECURSIVE ComposeTimes(_, _)
ComposeTimes(a, n) ==
    IF n = 0 THEN Identity
    ELSE [i \in Points |-> a[ComposeTimes(a, n - 1)[i]]]

\* C11: automorphism_cyclic(k) is total for every integer k (negative and
\* >= 7 included) and returns the mapping p -> (p + k) mod 7 with values in
\* 0..6: each value differs from p + k by a multiple of 7.  It is a bijection
\* on 0..6 equal to automorphism_cyclic(k mod 7); automorphism_cyclic(0) is
\* the identity and automorphism_cyclic(1) composed with itself seven times
\* gives the identity.
C11_AutomorphismCyclic ==
    op = "automorphism_cyclic" =>
        /\ result.kind = "ok"
        /\ DOMAIN result.val = Points
        /\ \A p \in Points :
               /\ result.val[p] \in Points
               /\ \E q \in (0 - MaxNeg - 1)..(MaxK + 1) : p + args[1] = result.val[p] + 7 * q
        /\ {result.val[p] : p \in Points} = Points
        /\ \A p \in Points : \A q \in Points : result.val[p] = result.val[q] => p = q
        /\ \A r \in Points :
               (\E q \in (0 - MaxNeg - 1)..(MaxK + 1) : args[1] = r + 7 * q) =>
                   result = automorphism_cyclic(fano, r)
        /\ args[1] = 0 => result.val = Identity
        /\ args[1] = 1 => ComposeTimes(result.val, 7) = Identity

\* automorphism_cyclic(-8) has returned: a negative shift beyond one turn,
\* the mapping of the shift by 6
C11_Witness ==
    /\ op = "automorphism_cyclic"
    /\ args = << 0 - 8 >>
    /\ result.kind = "ok"
    /\ result.val[0] = 6
    /\ result.val[1] = 0

\* C12: apply_automorphism(a), a a total mapping on 0..6, leaves the plane it
\* is called on unchanged (its points and its lines are the same before and
\* after the call) and returns a new plane with points [0..6] whose line at
\* each index i is {a[p] : p in lines[i]} of the original: line order and
\* index correspondence are preserved.
C12_ApplyAutomorphismFrame ==
    [][(op' = "apply_automorphism" /\ DOMAIN args'[1] = Points) =>
           /\ fano' = fano
           /\ result'.kind = "ok"
           /\ result'.val.points = << 0, 1, 2, 3, 4, 5, 6 >>
           /\ Len(result'.val.lines) = Len(fano.lines)
           /\ \A i \in 1..Len(fano.lines) :
                  /\ \A p \in fano.lines[i] : args'[1][p] \in result'.val.lines[i]
                  /\ \A q \in result'.val.lines[i] :
                         \E p \in fano.lines[i] : args'[1][p] = q]_vars

\* the transposition of 0 and 1 has been applied to the canonical plane: the
\* caller's plane is still canonical, and line 1 = {1,2,4} of the returned
\* plane is {0,2,4}
C12_Witness ==
    /\ op = "apply_automorphism"
    /\ args = << Swap01 >>
    /\ Canonical
    /\ result.kind = "ok"
    /\ result.val.lines[2] = {0, 2, 4}
    /\ result.val # fano

\* C13: line_through_points(p1,p2) fails with NotFound (ValueError) whenever
\* p1 = p2: for every point p of 0..6 line_through_points(p,p) returns no line
\* index, and third_point(p,p) propagates that error instead of returning a
\* point.
C13_EqualPointsNotFound ==
    (/\ op \in {"line_through_points", "third_point"}
     /\ args[1] \in Points
     /\ args[1] = args[2]) =>
        result.kind = "ValueError"

\* C14: is_collinear is a total predicate: for all integer arguments it
\* returns a boolean and never raises, and it returns false whenever p1 = p2
\* (for every p3) and whenever no line contains both p1 and p2.
C14_IsCollinearTotal ==
    op = "is_collinear" =>
        /\ result.kind = "ok"
        /\ result.val \in BOOLEAN
        /\ args[1] = args[2] => result.val = FALSE
        /\ LinesHolding(fano, {args[1], args[2]}) = {} => result.val = FALSE

\* C16: an argument outside 0..6 is rejected with an error rather than
\* answered: lines_through_point(point) fails for every point < 0 or > 6 (it
\* does not return an empty list), and points_on_line(line_idx) and
\* complement_line(line_idx) fail for every line_idx < 0 or > 6 (a negative
\* index is not an index counted from the end).
C16_OutOfRangeRejected ==
    (/\ op \in {"lines_through_point", "points_on_line", "complement_line"}
     /\ args[1] \notin 0..6) =>
        result.kind \notin {"ok", "none"}

\* the two lines intersection was called with, for indices the list accepts
FirstLine == Subscript(fano.lines, args[1]).val
SecondLine == Subscript(fano.lines, args[2]).val

\* intersection has returned or raised, and both its indices name a line
IntersectionCase ==
    /\ op = "intersection"
    /\ Subscript(fano.lines, args[1]).kind = "ok"
    /\ Subscript(fano.lines, args[2]).kind = "ok"

\* C15: intersection(i,j) fails with an InvariantViolation (the assertion, an
\* AssertionError) and returns no point whenever lines[i] and lines[j] do not
\* share exactly one element; in particular intersection(i,i) fails for every
\* index i of a 3-point line, the intersection being the whole line; and it
\* never silently returns one of several common points.
C15_IntersectionAsserts ==
    IntersectionCase =>
        /\ Cardinality(FirstLine \cap SecondLine) # 1 => result.kind = "AssertionError"
        /\ (args[1] = args[2] /\ Cardinality(FirstLine) = 3) => result.kind = "AssertionError"
        /\ (Canonical /\ args[1] = args[2]) => result.kind = "AssertionError"
        /\ result.kind = "ok" => FirstLine \cap SecondLine = {result.val}

\* intersection has raised AssertionError on two different lines that share
\* two points, on a plane a mapping that is not injective has left
C15_Witness ==
    /\ IntersectionCase
    /\ FirstLine # SecondLine
    /\ Cardinality(FirstLine \cap SecondLine) = 2
    /\ result.kind = "AssertionError"

\* the dictionary is a bijection on the points 0..6
IsBijection(a) ==
    /\ DOMAIN a = Points
    /\ {a[p] : p \in Points} = Points

\* C17: apply_automorphism validates its argument: when the mapping is not a
\* bijection on the points 0..6 (a constant map, say) it fails and produces no
\* plane, rather than silently returning a structure whose lines have fewer
\* than 3 points.
C17_RejectsNonBijection ==
    (op = "apply_automorphism" /\ ~IsBijection(args[1])) =>
        result.kind \notin {"ok", "none"}

\* The five checks as the specification states them, of a plane.
\* for every unordered pair of distinct points, exactly one line holds both
TwoPointsOneLine(plane) ==
    \A pair \in SUBSET Points :
        Cardinality(pair) = 2 => Cardinality(LinesHolding(plane, pair)) = 1

\* for every unordered pair of distinct line indices, the lines share exactly
\* one point
TwoLinesOnePoint(plane) ==
    \A pair \in SUBSET (1..Len(plane.lines)) :
        Cardinality(pair) = 2 =>
            Cardinality({p \in Points : \A i \in pair : p \in plane.lines[i]}) = 1

EachLineThreePoints(plane) ==
    \A i \in 1..Len(plane.lines) : Cardinality(plane.lines[i]) = 3

EachPointThreeLines(plane) ==
    \A p \in Points : Cardinality(LinesHolding(plane, {p})) = 3

\* some 4 points have no 3 of them all on one common line
FourIndependentPoints(plane) ==
    \E four \in SUBSET Points :
        /\ Cardinality(four) = 4
        /\ \A three \in SUBSET four :
               Cardinality(three) = 3 => LinesHolding(plane, three) = {}

\* the plane is structurally complete: points 0..6, 7 lines, each a set of at
\* most 3 points
StructurallyComplete(plane) ==
    /\ plane.points = << 0, 1, 2, 3, 4, 5, 6 >>
    /\ Len(plane.lines) = 7
    /\ \A i \in 1..7 : plane.lines[i] \subseteq Points /\ Cardinality(plane.lines[i]) <= 3

\* some pair of distinct points lies on more than one line, and some on none
PairsAstray(plane) ==
    /\ \E pair \in SUBSET Points :
           Cardinality(pair) = 2 /\ Cardinality(LinesHolding(plane, pair)) > 1
    /\ \E pair \in SUBSET Points :
           Cardinality(pair) = 2 /\ LinesHolding(plane, pair) = {}

\* verify_axioms has returned the five entries as the specification states
\* them, each on its own
EntriesAsStated ==
    (op = "verify_axioms" /\ StructurallyComplete(fano)) =>
        /\ result.kind = "ok"
        /\ DOMAIN result.val = AxiomNames
        /\ result.val["Two points determine unique line"] = TwoPointsOneLine(fano)
        /\ result.val["Two lines intersect at unique point"] = TwoLinesOnePoint(fano)
        /\ result.val["Each line has 3 points"] = EachLineThreePoints(fano)
        /\ result.val["Each point on 3 lines"] = EachPointThreeLines(fano)
        /\ result.val["Has 4 independent points"] = FourIndependentPoints(fano)

\* C18: for every structurally-complete plane (points 0..6, 7 lines each a
\* set of at most 3 points, valid or corrupted), each of the five
\* verify_axioms entries equals its stated definition evaluated independently
\* of the others; "Has 4 independent points" is true iff some 4-subset of the
\* points has no 3 points all on one common line, even when some pair of
\* points lies on more than one line or on no line; and verify_axioms leaves
\* the plane's points and lines unchanged.
C18_VerifyAxiomsEntries ==
    /\ []EntriesAsStated
    /\ [][op' = "verify_axioms" => fano' = fano]_vars

\* verify_axioms has returned on a corrupted plane, of which one pair of
\* points lies on several lines and another on none: the first entry is
\* False, the last one True
C18_Witness ==
    /\ op = "verify_axioms"
    /\ StructurallyComplete(fano)
    /\ PairsAstray(fano)
    /\ result.kind = "ok"
    /\ result.val["Two points determine unique line"] = FALSE
    /\ result.val["Has 4 independent points"] = TRUE

\* the four derived invariants of a valid plane
DerivedInvariants(plane) ==
    /\ EachLineThreePoints(plane)
    /\ EachPointThreeLines(plane)
    /\ TwoPointsOneLine(plane)
    /\ TwoLinesOnePoint(plane)

\* C19: in every plane reachable from the canonical plane by a finite sequence
\* of apply_automorphism calls whose arguments are bijections on 0..6
\* (arbitrary permutations, not only cyclic shifts), the four derived
\* invariants hold (every line has 3 points, every point is on 3 lines, two
\* distinct points share exactly one line, two distinct lines share exactly
\* one point) and verify_axioms returns True for all five entries, even though
\* the set of lines may differ from the canonical one.
C19_BijectionsKeepAxioms ==
    /\ \A plane \in Receivers : DerivedInvariants(plane)
    /\ op = "verify_axioms" =>
           /\ result.kind = "ok"
           /\ DOMAIN result.val = AxiomNames
           /\ \A name \in AxiomNames : result.val[name] = TRUE

\* verify_axioms has returned on a plane that a permutation produced and
\* whose set of lines is not the canonical one
C19_Witness ==
    /\ op = "verify_axioms"
    /\ SetOf(fano.lines) # SetOf(FanoPlane.lines)
    /\ result.kind = "ok"
    /\ \A name \in AxiomNames : result.val[name] = TRUE

====
